---- MODULE Spec2Model ----
(***************************************************************************)
(* Model of mi_app.py: the Streamlit script that loads the dollar quotes   *)
(* and the fixed-term deposit rate, joins them on the date index and       *)
(* builds the "Dolar vs. Plazo Fijo" comparison table.                     *)
(*                                                                         *)
(* Dates are day numbers (1 = first calendar day of the horizon).          *)
(* NaN / NaT / None cells of a DataFrame are the integer NaN.              *)
(* Percentages are exact rationals [num, den] with den > 0; the value sets *)
(* below are chosen so that IEEE doubles order them the same way.          *)
(* The payloads carry one quote per (date, casa) and one rate per date;    *)
(* prices are positive.                                                    *)
(***************************************************************************)
EXTENDS Integers, Sequences, FiniteSets, TLC

MaxDate == 3
MaxPeriodo == 2

NaN == -1
Ausente == NaN - 1
Dates == 1..MaxDate
Precios == {128, 129, 256}
Tasas == {0, 36500}
PreciosOficial == {128}
DiasAnio == 365
FilasMostradas == 20

LabelDolar == "Dolar"
LabelPlazoFijo == "Plazo Fijo"
LabelEmpate == "Empate / Dolar < 1%"

VARIABLES pc, resp_dolar, resp_pf, datos_dolar, datos_pf, df_completo,
          dolar_a_comparar, periodo_dias, df_comparativa, df_display, salida

vars == <<pc, resp_dolar, resp_pf, datos_dolar, datos_pf, df_completo,
          dolar_a_comparar, periodo_dias, df_comparativa, df_display, salida>>

(* ---------------------------------------------------------------------- *)
(* Generic helpers                                                        *)
(* ---------------------------------------------------------------------- *)
MinOf(S) == CHOOSE x \in S : \A y \in S : x <= y
MaxOf(S) == CHOOSE x \in S : \A y \in S : x >= y

RECURSIVE SortedSeq(_)
SortedSeq(S) == IF S = {} THEN << >>
                ELSE LET m == MinOf(S) IN <<m>> \o SortedSeq(S \ {m})

RECURSIVE Reverse(_)
Reverse(s) == IF s = << >> THEN << >> ELSE Reverse(Tail(s)) \o <<Head(s)>>

RECURSIVE InsertByFecha(_, _)
InsertByFecha(r, s) ==
    IF s = << >> THEN <<r>>
    ELSE IF r.fecha < Head(s).fecha THEN <<r>> \o s
         ELSE <<Head(s)>> \o InsertByFecha(r, Tail(s))

RECURSIVE SortAscending(_)
SortAscending(s) == IF s = << >> THEN << >>
                    ELSE InsertByFecha(Head(s), SortAscending(Tail(s)))

FechasDe(rows) == {rows[i].fecha : i \in DOMAIN rows}
FilaEn(rows, d) == rows[CHOOSE i \in DOMAIN rows : rows[i].fecha = d]

(* a DataFrame: None, or a set of column names and a sequence of rows *)
NoneDF == [none |-> TRUE, columns |-> {}, rows |-> << >>]
DF(cols, rows) == [none |-> FALSE, columns |-> cols, rows |-> rows]
Empty(df) == df.rows = << >>

(* ---------------------------------------------------------------------- *)
(* cargar_datos_dolar                                                     *)
(* ---------------------------------------------------------------------- *)
Capitalize(s) ==
    CASE s \in {"oficial", "Oficial", "OFICIAL"} -> "Oficial"
      [] s \in {"blue", "Blue", "BLUE"} -> "Blue"
      [] s \in {"mep", "Mep", "MEP"} -> "Mep"
      [] s \in {"ccl", "Ccl", "CCL"} -> "Ccl"
      [] OTHER -> s

RECURSIVE SumOf(_)
SumOf(S) == IF S = {} THEN 0
            ELSE LET x == CHOOSE y \in S : TRUE IN x + SumOf(S \ {x})

(* pivot_table(index='fecha', columns='casa', values='venta'): one row per
   date, one column per casa, each cell the mean of the matching records *)
PivotCell(data, d, c) ==
    LET vs == {r.venta : r \in {q \in data : q.fecha = d /\ q.casa = c}}
    IN IF vs = {} THEN NaN ELSE SumOf(vs) \div Cardinality(vs)

PivotTable(data) ==
    LET casas == {r.casa : r \in data}
        fechas == SortedSeq({r.fecha : r \in data})
    IN [casas |-> casas,
        rows |-> [i \in DOMAIN fechas |->
                    [fecha |-> fechas[i],
                     v |-> [c \in casas |-> PivotCell(data, fechas[i], c)]]]]

(* df_pivote.columns = [str(col).capitalize() ...] *)
RenombrarColumnas(pt) ==
    LET cols == {Capitalize(c) : c \in pt.casas}
        Orig(col) == CHOOSE c \in pt.casas : Capitalize(c) = col
    IN DF(cols, [i \in DOMAIN pt.rows |->
                   [fecha |-> pt.rows[i].fecha,
                    v |-> [col \in cols |-> pt.rows[i].v[Orig(col)]]]])

(* DataFrame.dropna(subset=cols) on rows with a cell function v *)
DropnaSubset(rows, cols) ==
    LET Keep(r) == \A c \in cols : r.v[c] # NaN IN SelectSeq(rows, Keep)

(* variant: the pivot is returned even when it has no 'Oficial' column *)
ProcesarDolar_parcial(data) ==
    IF data = {} THEN NoneDF ELSE RenombrarColumnas(PivotTable(data))

(* the try-body of cargar_datos_dolar; "KeyError" stands for the exception
   raised by df['fecha'] on an empty payload or by subset=['Oficial'] *)
ProcesarDolar(data) ==
    IF data = {} THEN NoneDF
    ELSE LET df_pivote == RenombrarColumnas(PivotTable(data))
         IN IF "Oficial" \notin df_pivote.columns THEN NoneDF
            ELSE DF(df_pivote.columns, DropnaSubset(df_pivote.rows, {"Oficial"}))

(* raw payloads of the quotes API within the bounds *)
RegistrosDolar(f) ==
    {[fecha |-> d, casa |-> "oficial", venta |-> f[d][1]] : d \in {e \in Dates : f[e][1] # Ausente}}
    \cup
    {[fecha |-> d, casa |-> "blue", venta |-> f[d][2]] : d \in {e \in Dates : f[e][2] # Ausente}}

PayloadsDolar ==
    {RegistrosDolar(f) : f \in [Dates -> (({Ausente} \cup PreciosOficial) \X ({Ausente} \cup Precios))]}

ClaseRespuestaDolar(data) ==
    IF data = {} THEN "vacia"
    ELSE IF "oficial" \notin {r.casa : r \in data} THEN "sin_oficial" ELSE "datos"

CargarDatosDolar ==
    /\ pc = "cargar_dolar"
    /\ \/ /\ resp_dolar' = "error_http"
          /\ datos_dolar' = NoneDF
          /\ salida' = salida \cup {"error_api_dolar"}
       \/ \E data \in PayloadsDolar :
            /\ resp_dolar' = ClaseRespuestaDolar(data)
            /\ datos_dolar' = ProcesarDolar(data)
            /\ salida' = IF ProcesarDolar(data).none
                         THEN salida \cup {"error_procesar_dolar"} ELSE salida
    /\ pc' = "cargar_pf"
    /\ UNCHANGED <<resp_pf, datos_pf, df_completo, dolar_a_comparar,
                   periodo_dias, df_comparativa, df_display>>

(* ---------------------------------------------------------------------- *)
(* cargar_datos_plazo_fijo                                                *)
(* ---------------------------------------------------------------------- *)
(* the try-body: DataFrame(data), set_index('fecha'), rename valor *)
ProcesarPlazoFijo(data) ==
    IF data = << >> THEN NoneDF
    ELSE DF({"TNA Plazo Fijo"},
            [i \in DOMAIN data |-> [fecha |-> data[i].fecha, tna |-> data[i].valor]])

(* oldest first, and newest first when every date has a record *)
RegistrosPF(g) ==
    LET fechas == SortedSeq({d \in Dates : g[d] # Ausente})
    IN [i \in DOMAIN fechas |-> [fecha |-> fechas[i], valor |-> g[fechas[i]]]]

PayloadsPF ==
    LET asc == {RegistrosPF(g) : g \in [Dates -> ({Ausente, NaN} \cup Tasas)]}
    IN asc \cup {Reverse(s) : s \in {t \in asc : Len(t) = MaxDate}}

CargarDatosPlazoFijo ==
    /\ pc = "cargar_pf"
    /\ \/ /\ resp_pf' = "error_http"
          /\ datos_pf' = NoneDF
          /\ salida' = salida \cup {"error_api_pf"}
       \/ \E data \in PayloadsPF :
            /\ resp_pf' = IF data = << >> THEN "vacia" ELSE "datos"
            /\ datos_pf' = ProcesarPlazoFijo(data)
            /\ salida' = IF ProcesarPlazoFijo(data).none
                         THEN salida \cup {"error_procesar_pf"} ELSE salida
    /\ pc' = "guard"
    /\ UNCHANGED <<resp_dolar, datos_dolar, df_completo, dolar_a_comparar,
                   periodo_dias, df_comparativa, df_display>>

(* ---------------------------------------------------------------------- *)
(* module level: guard and df_completo                                    *)
(* ---------------------------------------------------------------------- *)
(* variant: only the quotes are verified *)
PipelineGuard_solo_dolar(dd, pf) == ~dd.none /\ ~Empty(dd)

PipelineGuard(dd, pf) ==
    /\ ~dd.none /\ ~Empty(dd)
    /\ ~pf.none /\ ~Empty(pf)

(* datos_dolar.join(datos_pf, how='outer'): one row per date of the union
   of both indexes, in lexicographic order of the key *)
JoinOuter(dd, pf) ==
    LET fechas == SortedSeq(FechasDe(dd.rows) \cup FechasDe(pf.rows))
    IN [i \in DOMAIN fechas |->
          LET d == fechas[i] IN
          [fecha |-> d,
           v |-> [c \in dd.columns |->
                    IF d \in FechasDe(dd.rows) THEN FilaEn(dd.rows, d).v[c] ELSE NaN],
           tna |-> IF d \in FechasDe(pf.rows) THEN FilaEn(pf.rows, d).tna ELSE NaN]]

(* Series.ffill() on the 'TNA Plazo Fijo' column *)
RECURSIVE FFillFrom(_, _)
FFillFrom(rows, last) ==
    IF rows = << >> THEN << >>
    ELSE LET r == Head(rows)
             val == IF r.tna = NaN THEN last ELSE r.tna
         IN <<[r EXCEPT !.tna = val]>> \o FFillFrom(Tail(rows), val)

(* variant: the rate column is left as joined *)
FFill_sin_relleno(rows) == rows

FFill(rows) == FFillFrom(rows, NaN)

(* variant: the rows without quotes are kept *)
Combinar_sin_dropna(dd, pf) ==
    DF(dd.columns \cup {"TNA Plazo Fijo"}, FFill(SortAscending(JoinOuter(dd, pf))))

Combinar(dd, pf) ==
    LET unido == SortAscending(JoinOuter(dd, pf))
        relleno == FFill(unido)
    IN DF(dd.columns \cup {"TNA Plazo Fijo"}, DropnaSubset(relleno, dd.columns))

CombinarDatos ==
    /\ pc = "guard"
    /\ PipelineGuard(datos_dolar, datos_pf)
    /\ df_completo' = Combinar(datos_dolar, datos_pf)
    /\ salida' = salida \cup {"success"}
    /\ pc' = "graficos"
    /\ UNCHANGED <<resp_dolar, resp_pf, datos_dolar, datos_pf, dolar_a_comparar,
                   periodo_dias, df_comparativa, df_display>>

ErrorCarga ==
    /\ pc = "guard"
    /\ ~PipelineGuard(datos_dolar, datos_pf)
    /\ salida' = salida \cup {"error_carga"}
    /\ pc' = "done"
    /\ UNCHANGED <<resp_dolar, resp_pf, datos_dolar, datos_pf, df_completo,
                   dolar_a_comparar, periodo_dias, df_comparativa, df_display>>

(* ---------------------------------------------------------------------- *)
(* the two charts: quotes and spread against the official dollar          *)
(* ---------------------------------------------------------------------- *)
Preferidas(lista, disponibles) == {o \in lista : o \in disponibles}

(* the multiselects are left at their default selections *)
Graficos ==
    /\ pc = "graficos"
    /\ LET opciones_disponibles == datos_dolar.columns
           dolares_para_spread == opciones_disponibles \ {"Oficial"}
           cotizaciones_seleccionadas ==
               Preferidas({"Oficial", "Blue", "Mep", "Ccl"}, opciones_disponibles)
           spreads_seleccionados ==
               Preferidas({"Blue", "Mep", "Ccl"}, dolares_para_spread)
       IN salida' = salida
                \cup (IF cotizaciones_seleccionadas # {}
                      THEN {"line_chart_cotizaciones"} ELSE {"warning_cotizaciones"})
                \cup (IF spreads_seleccionados # {}
                      THEN {"line_chart_spread"} ELSE {"warning_spread"})
    /\ pc' = "comparativa"
    /\ UNCHANGED <<resp_dolar, resp_pf, datos_dolar, datos_pf, df_completo,
                   dolar_a_comparar, periodo_dias, df_comparativa, df_display>>

(* ---------------------------------------------------------------------- *)
(* Comparativa Dolar vs. Plazo Fijo                                       *)
(* ---------------------------------------------------------------------- *)
(* exact rationals; NaNRat compares false with everything, as NaN does *)
NaNRat == [num |-> 0, den |-> 0]
Rat(n, d) == [num |-> n, den |-> d]
RatGT(a, b) == a.num * b.den > b.num * a.den
UnoPorCiento == Rat(1, 1)

(* (Final / Inicial - 1) * 100 *)
VariacionDolar(final, inicial) ==
    IF final = NaN \/ inicial = NaN THEN NaNRat
    ELSE Rat((final - inicial) * 100, inicial)

(* (TNA / 365) * periodo_dias *)
RendimientoPF(tna, n) ==
    IF tna = NaN THEN NaNRat ELSE Rat(tna * n, DiasAnio)

(* variant: no 1% floor and no third label *)
determinar_ganador_sin_piso(row) ==
    IF RatGT(row.Rendimiento, row.Variacion) THEN LabelPlazoFijo ELSE LabelDolar

determinar_ganador(row) ==
    LET variacion_dolar == row.Variacion
        rendimiento_pf == row.Rendimiento
    IN IF RatGT(variacion_dolar, UnoPorCiento) /\ RatGT(variacion_dolar, rendimiento_pf)
       THEN LabelDolar
       ELSE IF RatGT(rendimiento_pf, variacion_dolar)
            THEN LabelPlazoFijo
            ELSE LabelEmpate

(* variant: the two columns are selected without dropna() *)
SeleccionarSinDropna(rows, dolar) ==
    [i \in DOMAIN rows |->
        [fecha |-> rows[i].fecha, dolar |-> rows[i].v[dolar], tna |-> rows[i].tna]]

(* df_completo[[dolar, 'TNA Plazo Fijo']].copy().dropna() *)
SeleccionarDropna(rows, dolar) ==
    LET sel == [i \in DOMAIN rows |->
                  [fecha |-> rows[i].fecha, dolar |-> rows[i].v[dolar], tna |-> rows[i].tna]]
        Keep(r) == r.dolar # NaN /\ r.tna # NaN
    IN SelectSeq(sel, Keep)

(* variant: the index is left ascending *)
SortDescending_asc(rows) == SortAscending(rows)

(* sort_index(ascending=False) *)
SortDescending(rows) == Reverse(SortAscending(rows))

(* variant: the shift is one position short *)
Shift_desfasado(col, periods) ==
    [i \in DOMAIN col |->
        IF (i - periods - 1) \in DOMAIN col THEN col[i - periods - 1] ELSE NaN]

(* Series.shift(periods): position i takes the value of position i - periods *)
Shift(col, periods) ==
    [i \in DOMAIN col |-> IF (i - periods) \in DOMAIN col THEN col[i - periods] ELSE NaN]

(* dropna(subset=[Inicial, 'Fecha Inicial']) *)
DropnaInicial(rows) ==
    LET Keep(r) == r.Inicial # NaN /\ r.FechaInicial # NaN IN SelectSeq(rows, Keep)

Comparar(completo, dolar, n) ==
    LET base == SortDescending(SeleccionarDropna(completo, dolar))
        precios == [i \in DOMAIN base |-> base[i].dolar]
        fechas == [i \in DOMAIN base |-> base[i].fecha]
        inicial == Shift(precios, -n)
        fecha_inicial == Shift(fechas, -n)
        filas == [i \in DOMAIN base |->
                    [FechaInicial |-> fecha_inicial[i],
                     FechaFinal |-> base[i].fecha,
                     Inicial |-> inicial[i],
                     Final |-> base[i].dolar,
                     Variacion |-> VariacionDolar(base[i].dolar, inicial[i]),
                     TNA |-> base[i].tna,
                     Rendimiento |-> RendimientoPF(base[i].tna, n)]]
        limpias == DropnaInicial(filas)
    IN [i \in DOMAIN limpias |->
          [FechaInicial |-> limpias[i].FechaInicial,
           FechaFinal |-> limpias[i].FechaFinal,
           Inicial |-> limpias[i].Inicial,
           Final |-> limpias[i].Final,
           Variacion |-> limpias[i].Variacion,
           TNA |-> limpias[i].TNA,
           Rendimiento |-> limpias[i].Rendimiento,
           Conclusion |-> determinar_ganador(limpias[i])]]

(* DataFrame.head(n) *)
HeadRows(rows, n) == SubSeq(rows, 1, IF Len(rows) < n THEN Len(rows) ELSE n)

OpcionesComparativa(columns) == {d \in {"Blue", "Mep", "Ccl"} : d \in columns}

Comparativa ==
    /\ pc = "comparativa"
    /\ \E n \in 1..MaxPeriodo :
       \E dolar \in (IF OpcionesComparativa(df_completo.columns) = {}
                     THEN {"None"} ELSE OpcionesComparativa(df_completo.columns)) :
          /\ periodo_dias' = n
          /\ dolar_a_comparar' = dolar
          /\ IF dolar # "None"
             THEN /\ df_comparativa' = Comparar(df_completo.rows, dolar, n)
                  /\ df_display' = HeadRows(Comparar(df_completo.rows, dolar, n), FilasMostradas)
                  /\ salida' = salida \cup {"dataframe_comparativa"}
             ELSE UNCHANGED <<df_comparativa, df_display, salida>>
    /\ pc' = "done"
    /\ UNCHANGED <<resp_dolar, resp_pf, datos_dolar, datos_pf, df_completo>>

Init ==
    /\ pc = "cargar_dolar"
    /\ resp_dolar = "pendiente"
    /\ resp_pf = "pendiente"
    /\ datos_dolar = NoneDF
    /\ datos_pf = NoneDF
    /\ df_completo = NoneDF
    /\ dolar_a_comparar = "None"
    /\ periodo_dias = 0
    /\ df_comparativa = << >>
    /\ df_display = << >>
    /\ salida = {}

Next ==
    \/ CargarDatosDolar
    \/ CargarDatosPlazoFijo
    \/ CombinarDatos
    \/ ErrorCarga
    \/ Graficos
    \/ Comparativa

Spec == Init /\ [][Next]_vars

(* ---------------------------------------------------------------------- *)
(* Properties                                                             *)
(* ---------------------------------------------------------------------- *)
ComparativaHecha == "dataframe_comparativa" \in salida
Filas == {df_comparativa[i] : i \in DOMAIN df_comparativa}

(* cell of the combined table at calendar day d, NaN when d has no row *)
ValorEn(d) == IF d \in FechasDe(df_completo.rows)
              THEN FilaEn(df_completo.rows, d).v[dolar_a_comparar] ELSE NaN
TasaEn(d) == IF d \in FechasDe(df_completo.rows)
             THEN FilaEn(df_completo.rows, d).tna ELSE NaN

(* dates of the combined table that have both the chosen quote and a rate *)
FechasElegibles == {d \in FechasDe(df_completo.rows) : ValorEn(d) # NaN /\ TasaEn(d) # NaN}

(* C1: every comparison row starts exactly periodo_dias calendar days
   before it ends: Fecha Inicial = Fecha Final - N. *)
C1_NoLookahead ==
    \A r \in Filas : r.FechaInicial = r.FechaFinal - periodo_dias

(* integer forms of the comparisons between the two returns of a row,
   over the common denominator 365 * Inicial > 0 *)
PlazoFijoSupera(r) == r.TNA * periodo_dias * r.Inicial > (r.Final - r.Inicial) * 100 * DiasAnio
DolarSupera(r) == (r.Final - r.Inicial) * 100 * DiasAnio > r.TNA * periodo_dias * r.Inicial
DolarSobreUno(r) == (r.Final - r.Inicial) * 100 > r.Inicial

(* C2 (as stated): the label is the deposit when the deposit return is
   strictly higher and the currency in every other case; there is no third
   label. *)
C2_WinnerRule ==
    \A r \in Filas :
        r.Conclusion = IF PlazoFijoSupera(r) THEN LabelPlazoFijo ELSE LabelDolar

(* C2 (amended): the deposit wins when its return is strictly higher; the
   currency wins only when its return is strictly higher and above 1%;
   every other row (equal returns, or a currency gain of at most 1%) gets
   the third label. *)
C2_WinnerRuleFloor ==
    \A r \in Filas :
        /\ PlazoFijoSupera(r) => r.Conclusion = LabelPlazoFijo
        /\ (DolarSupera(r) /\ DolarSobreUno(r)) => r.Conclusion = LabelDolar
        /\ (~PlazoFijoSupera(r) /\ ~(DolarSupera(r) /\ DolarSobreUno(r)))
              => r.Conclusion = LabelEmpate

C2_Witness ==
    \E r \in Filas : DolarSupera(r) /\ ~DolarSobreUno(r) /\ r.Conclusion = LabelEmpate

(* C3: every output row has a present start value and a present rate at
   its end date, both being the cells of the combined table at those dates. *)
C3_Eligibility ==
    \A r \in Filas :
        /\ r.Inicial # NaN /\ r.FechaInicial # NaN /\ r.TNA # NaN
        /\ TasaEn(r.FechaFinal) # NaN /\ TasaEn(r.FechaFinal) = r.TNA
        /\ ValorEn(r.FechaInicial) # NaN /\ ValorEn(r.FechaInicial) = r.Inicial
        /\ ValorEn(r.FechaFinal) = r.Final

C3_Witness ==
    /\ Filas # {}
    /\ \E d \in FechasDe(df_completo.rows) : ValorEn(d) # NaN /\ TasaEn(d) = NaN

(* C4: every date D with a quote, a rate, and a quote N calendar days
   earlier gets a comparison row. *)
C4_Completeness ==
    ComparativaHecha =>
        \A d \in Dates :
            (ValorEn(d) # NaN /\ TasaEn(d) # NaN /\ ValorEn(d - periodo_dias) # NaN)
                => \E r \in Filas : r.FechaFinal = d

(* most recent known rate of the rate series at or before day d *)
UltimaTasaConocida(rows, d) ==
    LET S == {rows[i].fecha : i \in {j \in DOMAIN rows : rows[j].fecha <= d /\ rows[j].tna # NaN}}
    IN IF S = {} THEN NaN ELSE FilaEn(rows, MaxOf(S)).tna

(* C5: the rate of every date of the combined table is the rate of the
   most recent date at or before it with a known rate, missing if none. *)
C5_ForwardFill ==
    \A i \in DOMAIN df_completo.rows :
        df_completo.rows[i].tna = UltimaTasaConocida(datos_pf.rows, df_completo.rows[i].fecha)

C5_Witness ==
    \E i \in DOMAIN df_completo.rows :
        LET r == df_completo.rows[i] IN
        /\ r.tna # NaN
        /\ UltimaTasaConocida(datos_pf.rows, r.fecha) = r.tna
        /\ \A j \in DOMAIN datos_pf.rows :
              datos_pf.rows[j].fecha = r.fecha => datos_pf.rows[j].tna = NaN
        /\ \E j \in DOMAIN datos_pf.rows :
              datos_pf.rows[j].fecha > r.fecha /\ datos_pf.rows[j].tna \notin {NaN, r.tna}

(* C6: every date of the quote table and of the combined table has the
   Oficial quote, the combined dates come from the quote table only, and
   they are strictly ascending (hence unique). *)
C6_CombinedInvariant ==
    /\ \A i \in DOMAIN datos_dolar.rows : datos_dolar.rows[i].v["Oficial"] # NaN
    /\ \A i \in DOMAIN df_completo.rows : df_completo.rows[i].v["Oficial"] # NaN
    /\ FechasDe(df_completo.rows) \subseteq FechasDe(datos_dolar.rows)
    /\ \A i, j \in DOMAIN df_completo.rows :
          i < j => df_completo.rows[i].fecha < df_completo.rows[j].fecha

C6_Witness ==
    /\ Len(df_completo.rows) >= 2
    /\ FechasDe(datos_pf.rows) \ FechasDe(datos_dolar.rows) # {}

(* C7: the comparison rows are in strictly descending order of Fecha Final
   and the rows shown are the leading (most recent) ones. *)
C7_Descending ==
    /\ \A i, j \in DOMAIN df_comparativa :
          i < j => df_comparativa[i].FechaFinal > df_comparativa[j].FechaFinal
    /\ Len(df_display) = (IF Len(df_comparativa) < FilasMostradas
                          THEN Len(df_comparativa) ELSE FilasMostradas)
    /\ \A i \in DOMAIN df_display : df_display[i] = df_comparativa[i]
    /\ \A i \in DOMAIN df_display : \A j \in DOMAIN df_comparativa :
          j > Len(df_display) => df_display[i].FechaFinal > df_comparativa[j].FechaFinal

C7_Witness ==
    /\ Len(df_display) >= 2
    /\ df_display[1].FechaFinal > df_display[2].FechaFinal

ErroresDeCarga == {"error_api_dolar", "error_procesar_dolar",
                   "error_api_pf", "error_procesar_pf", "error_carga"}

(* C8 (as stated): with quotes loaded and an empty rate payload the
   pipeline runs, the combined table has no rate and the comparison is
   empty, with no error reported. *)
C8_EmptyRatesRun ==
    (pc = "done" /\ resp_pf = "vacia" /\ ~datos_dolar.none) =>
        /\ ~df_completo.none
        /\ \A i \in DOMAIN df_completo.rows : df_completo.rows[i].tna = NaN
        /\ df_comparativa = << >>
        /\ salida \cap ErroresDeCarga = {}

(* C8 (amended): with an empty rate payload the rate loader yields None
   and the pipeline is declined: no combined table, no comparison, and the
   load-failure error is reported. *)
C8_EmptyRatesDeclined ==
    (pc \notin {"cargar_dolar", "cargar_pf", "guard"} /\ resp_pf = "vacia") =>
        /\ pc = "done"
        /\ datos_pf.none
        /\ df_completo.none
        /\ df_comparativa = << >>
        /\ {"error_procesar_pf", "error_carga"} \subseteq salida
        /\ salida \subseteq ErroresDeCarga

C8_Witness ==
    pc = "done" /\ resp_pf = "vacia" /\ resp_dolar = "datos" /\ ~datos_dolar.none

(* C9: a loader that fails (request error or processing error) yields
   None, and with either table None no step of the pipeline runs: the
   only output is load-failure error messages. *)
C9_FetchFailure ==
    /\ resp_dolar \in {"error_http", "vacia", "sin_oficial"} => datos_dolar.none
    /\ resp_pf \in {"error_http", "vacia"} => datos_pf.none
    /\ (pc \notin {"cargar_dolar", "cargar_pf", "guard"} /\ (datos_dolar.none \/ datos_pf.none)) =>
          /\ pc = "done"
          /\ df_completo.none
          /\ df_comparativa = << >> /\ df_display = << >>
          /\ "error_carga" \in salida
          /\ salida \subseteq ErroresDeCarga

C9_Witness ==
    /\ pc = "done"
    /\ resp_dolar = "sin_oficial"
    /\ resp_pf = "datos"
    /\ ~datos_pf.none

(* C10: the window start is found N rows back among the dates that have
   both the chosen quote and a rate: every row starts at least N calendar
   days before it ends, with exactly N eligible dates in [start, end);
   there are max(0, M - N) rows for M eligible dates; and the deposit
   return is TNA / 365 * N. *)
C10_RowShift ==
    ComparativaHecha =>
        /\ \A r \in Filas :
              /\ r.FechaInicial <= r.FechaFinal - periodo_dias
              /\ r.FechaInicial \in FechasElegibles /\ r.FechaFinal \in FechasElegibles
              /\ Cardinality({d \in FechasElegibles :
                                r.FechaInicial <= d /\ d < r.FechaFinal}) = periodo_dias
              /\ r.Rendimiento.num * DiasAnio = r.TNA * periodo_dias * r.Rendimiento.den
              /\ r.Rendimiento.den > 0
        /\ Len(df_comparativa) =
              (IF Cardinality(FechasElegibles) > periodo_dias
               THEN Cardinality(FechasElegibles) - periodo_dias ELSE 0)

C10_Witness ==
    /\ Len(df_comparativa) >= 1
    /\ \E r \in Filas : r.FechaInicial < r.FechaFinal - periodo_dias
====
